---------------------------- MODULE Spec2Model ----------------------------
(***************************************************************************)
(* Query layer of the mobile-shopping agent: the catalog tools of          *)
(* backend/tools.py over the rows served by backend/database.py, and the   *)
(* retrying catalog store client.                                          *)
(*                                                                         *)
(* Python values are represented as follows.                               *)
(*   str            a sequence of one-character strings, "" is << >>       *)
(*   Optional[x]    None is << >>, a present value v is << v >>            *)
(*   free text      a sequence of numeric tokens [cur, val, unit]: a digit *)
(*                  group val, preceded by a rupee annotation when cur,    *)
(*                  followed by the unit marker unit ("" when none)        *)
(*   dict row       a record; a key the row does not carry is None         *)
(*   JSON kinds     a field that holds a value of another type than the    *)
(*                  expected one says so in the row's shape (an entry in   *)
(*                  its kind): "null", "number" (a number that is not 0)   *)
(*                  or "zero" (the number 0); the field's modelled value   *)
(*                  is then empty                                          *)
(*   decimals       "1.5 GB" is the digit group 1 with unit marker "."     *)
(*                  followed by the one-digit group 5 with unit "GB"       *)
(***************************************************************************)
EXTENDS Integers, Sequences, FiniteSets, TLC

VARIABLES
    catalog,    \* the rows of the store, in store order (PHONES_DATABASE)
    call,       \* the tool invocation last made: its name and arguments
    ret,        \* what that invocation returned
    queries,    \* the catalog store queries that invocation made
    client,     \* the catalog store client's retry loop
    memo,       \* history: an earlier invocation, its result and its catalog
    reference,  \* _PHONE_REFERENCE_CACHE, and the builds and refreshes so far
    api         \* session_service, and the chat requests in _ensure_session

\* the variables no tool and no store query writes
aux == <<memo, reference, api>>

\* the chat requests that can be in flight together
Procs == {1, 2}

vars == <<catalog, call, ret, queries, client, aux>>

\* no invocation is in progress
NoCall == [tool |-> "none"]

---------------------------------------------------------------------------
(* Bounds of the model *)

MaxRows == 3

---------------------------------------------------------------------------
(* Python values *)

None == << >>

Some(v) == << v >>

IsNone(o) == o = << >>

Val(o) == o[1]

\* str.lower() on one character of the model's alphabet
UpperCase == <<
    "A", "B", "C", "D", "E", "F", "G", "H", "I", "J", "K", "L", "M",
     "N", "O", "P", "Q", "R", "S", "T", "U", "V", "W", "X", "Y", "Z">>

LowerCase == <<
    "a", "b", "c", "d", "e", "f", "g", "h", "i", "j", "k", "l", "m",
     "n", "o", "p", "q", "r", "s", "t", "u", "v", "w", "x", "y", "z">>

LowerChar(c) ==
    IF \E i \in 1..Len(UpperCase) : UpperCase[i] = c
    THEN LowerCase[CHOOSE i \in 1..Len(UpperCase) : UpperCase[i] = c]
    ELSE c

\* str.lower()
Lower(s) == [i \in 1..Len(s) |-> LowerChar(s[i])]

\* needle in hay, for two str
Contains(hay, needle) ==
    \E i \in 0..(Len(hay) - Len(needle)) :
        \A j \in 1..Len(needle) : hay[i + j] = needle[j]

\* truthiness of an Optional[str]: neither None nor ""
Truthy(o) == ~IsNone(o) /\ Val(o) # << >>

\* min() and max() of a non-empty list of numbers
Min(S) == CHOOSE x \in S : \A y \in S : x <= y

Max(S) == CHOOSE x \in S : \A y \in S : x >= y

Range(s) == {s[i] : i \in 1..Len(s)}

---------------------------------------------------------------------------
(* Free text and the record normalizers (tools.py, helpers) *)

Tok(cur, val, unit) == [cur |-> cur, val |-> val, unit |-> unit]

\* re.IGNORECASE on a unit marker
LowerUnit(u) ==
    CASE u \in {"GB", "Gb", "gb"} -> "gb"
      [] u \in {"mAh", "MAH", "mah"} -> "mah"
      [] u \in {"Hz", "HZ", "hz"} -> "hz"
      [] OTHER -> u

\* the digit groups of a list of matched tokens, as numbers
ValsOf(tokens) == [i \in 1..Len(tokens) |-> tokens[i].val]

\* " ".join(pieces)
RECURSIVE Join(_)
Join(pieces) ==
    IF pieces = << >> THEN << >> ELSE Head(pieces) \o Join(Tail(pieces))

\* the info texts of the entries of one all_specs category that are not empty
RECURSIVE Infos(_)
Infos(entries) ==
    IF entries = << >> THEN << >>
    ELSE (IF Head(entries).info # << >> THEN << Head(entries).info >> ELSE << >>)
         \o Infos(Tail(entries))

\* a pattern that takes every digit group for an annotated one
IsRupee_any(t) == TRUE

IsRupee(t) == t.cur

\* the fallback without its threshold
IsPlausible_any(t) == TRUE

IsPlausible(t) == t.val >= 1000

_parse_lowest_price(phone) ==
    LET price_text == IF IsNone(phone.price) THEN << >> ELSE Val(phone.price)
        rupee_matches == ValsOf(SelectSeq(price_text, IsRupee))
        values == IF rupee_matches # << >>
                  THEN rupee_matches
                  ELSE ValsOf(SelectSeq(price_text, IsPlausible))
    IN  IF values # << >> THEN Some(Min(Range(values))) ELSE None

IsGB(t) == LowerUnit(t.unit) = "gb"

\* float(m) for the match (\d+(?:\.\d+)?)\s*GB that ends at token i of a piece,
\* in tenths
FloatTenths(text, i) ==
    IF i > 1 /\ text[i - 1].unit = "."
    THEN text[i - 1].val * 10 + text[i].val
    ELSE text[i].val * 10

\* the matches of one piece as floats, in tenths (the " " that joins two
\* pieces keeps a match from spanning them)
GBMatches(text) == {FloatTenths(text, i) : i \in {j \in 1..Len(text) : IsGB(text[j])}}

\* round(max(values)) in the place of int(max(values))
IntOfMax_rounded(values) == (Max(values) + 5) \div 10

\* int(max(values)) for values in tenths: the conversion truncates
IntOfMax(values) == Max(values) \div 10

_parse_max_ram(phone) ==
    LET pieces == (IF phone.spotlight.ram_size # << >>
                   THEN << phone.spotlight.ram_size >> ELSE << >>)
                  \o Infos(phone.all_specs.Memory)
        matches == UNION {GBMatches(pieces[i]) : i \in 1..Len(pieces)}
    IN  IF matches = {} THEN None ELSE Some(IntOfMax(matches))

\* (\d{3,5})\s*mAh : three to five digits right before the marker
IsMah(t) == LowerUnit(t.unit) = "mah" /\ t.val >= 100

\* the largest match in the place of the first
SearchGroup_largest(matches) == Max(Range(matches))

\* re.search(...).group(1): the leftmost match
SearchGroup(matches) == Head(matches)

_parse_battery_capacity(phone) ==
    LET pieces == (IF phone.spotlight.battery_size # << >>
                   THEN << phone.spotlight.battery_size >> ELSE << >>)
                  \o Infos(phone.all_specs.Battery)
        matches == ValsOf(SelectSeq(Join(pieces), IsMah))
    IN  IF matches = << >> THEN None ELSE Some(SearchGroup(matches) % 100000)

\* (\d{2,3})\s*Hz : two or three digits right before the marker
IsHz(t) == LowerUnit(t.unit) = "hz" /\ t.val >= 10

RECURSIVE _parse_refresh_rate_loop(_)
_parse_refresh_rate_loop(display_specs) ==
    IF display_specs = << >> THEN None
    ELSE LET matches == ValsOf(SelectSeq(Head(display_specs).info, IsHz))
         IN  IF matches # << >> THEN Some(Head(matches) % 1000)
             ELSE _parse_refresh_rate_loop(Tail(display_specs))

_parse_refresh_rate(phone) == _parse_refresh_rate_loop(phone.all_specs.Display)

\* re.findall(pattern, price_text) on a price that is a number other than 0
\* raises TypeError (null and 0 become "" by `or ""`)
_parse_lowest_price_raises(phone) == phone.shape.price = "number"

\* `phone.get(container) or {}` keeps a number other than 0, and .get on it
\* raises; null and 0 become {}
ContainerRaises(kind) == kind = "number"

\* `for entry in all_specs.get(category, [])` over null or a number raises
CategoryRaises(phone, category) ==
    phone.shape.all_specs = "ok" /\ phone.shape[category] # "ok"

\* " ".join(pieces) raises on a piece that is not text: a spotlight value or
\* an info that is a number other than 0 passes `if value:` and is appended
JoinRaises(phone, field, entries) ==
    \/ phone.shape.spotlight = "ok" /\ phone.shape[field] = "number"
    \/ phone.shape.all_specs = "ok" /\ \E i \in 1..Len(entries) : entries[i].kind = "number"

_parse_max_ram_raises(phone) ==
    \/ ContainerRaises(phone.shape.spotlight)
    \/ ContainerRaises(phone.shape.all_specs)
    \/ CategoryRaises(phone, "Memory")
    \/ JoinRaises(phone, "ram_size", phone.all_specs.Memory)

_parse_battery_capacity_raises(phone) ==
    \/ ContainerRaises(phone.shape.spotlight)
    \/ ContainerRaises(phone.shape.all_specs)
    \/ CategoryRaises(phone, "Battery")
    \/ JoinRaises(phone, "battery_size", phone.all_specs.Battery)

\* re.search(pattern, info) raises on an info that is null, a number or 0:
\* entry.get("info", "") defaults a missing key only, and no `if info:` guards
\* the search; an entry after the first match is never read
RECURSIVE _parse_refresh_rate_loop_raises(_)
_parse_refresh_rate_loop_raises(display_specs) ==
    IF display_specs = << >> THEN FALSE
    ELSE IF Head(display_specs).kind \in {"null", "number", "zero"} THEN TRUE
    ELSE IF SelectSeq(Head(display_specs).info, IsHz) # << >> THEN FALSE
    ELSE _parse_refresh_rate_loop_raises(Tail(display_specs))

_parse_refresh_rate_raises(phone) ==
    \/ ContainerRaises(phone.shape.all_specs)
    \/ CategoryRaises(phone, "Display")
    \/ phone.shape.all_specs = "ok" /\ _parse_refresh_rate_loop_raises(phone.all_specs.Display)

\* what a call of a normalizer gives back: a number, absent, or an exception
Raised == [raised |-> TRUE]

Returned(value) == [raised |-> FALSE, value |-> value]

---------------------------------------------------------------------------
(* The rows the store can hold *)

Entry(info) == [info |-> info, kind |-> "str"]

\* an entry whose info is missing, null, a number or 0
EntryOfKind(kind) == [info |-> << >>, kind |-> kind]

\* every field of the row has the expected type
WellFormed ==
    [price |-> "ok", spotlight |-> "ok", ram_size |-> "ok", battery_size |-> "ok",
     all_specs |-> "ok", Memory |-> "ok", Battery |-> "ok", Display |-> "ok"]

Phone(id, phone_name, brand_name, price, ram_size, battery_size, Memory, Battery, Display) ==
    [id |-> id, phone_name |-> phone_name, brand_name |-> brand_name,
     price |-> price,
     spotlight |-> [ram_size |-> ram_size, battery_size |-> battery_size],
     all_specs |-> [Memory |-> Memory, Battery |-> Battery, Display |-> Display],
     shape |-> WellFormed]

\* rupee-annotated prices, RAM in the spotlight and the Memory category,
\* battery in the spotlight, a 120 Hz display
PhoneA ==
    Phone(<<"a", "1">>, <<"A", "b">>, Some(<<"A">>),
          Some(<< Tok(FALSE, 64, "GB"), Tok(TRUE, 3000, ""), Tok(TRUE, 2000, "") >>),
          << Tok(FALSE, 8, "GB") >>,
          << Tok(FALSE, 4492, "mAh"), Tok(FALSE, 18, "W") >>,
          << Entry(<< Tok(FALSE, 8, "GB"), Tok(FALSE, 12, "gb") >>) >>,
          << >>,
          << Entry(<< Tok(FALSE, 120, "Hz") >>) >>)

\* a price without annotation, every derived value in all_specs only
PhoneB ==
    Phone(<<"b">>, <<"B", "a">>, Some(<<"a">>),
          Some(<< Tok(FALSE, 4, "GB"), Tok(FALSE, 1000, "") >>),
          << >>,
          << >>,
          << Entry(<< Tok(FALSE, 4, "GB") >>) >>,
          << Entry(<< Tok(FALSE, 33, "W") >>), Entry(<< Tok(FALSE, 3000, "MAH") >>) >>,
          << Entry(<< >>), Entry(<< Tok(FALSE, 60, "hz") >>) >>)

\* no brand_name, no price, nothing to parse
PhoneC ==
    Phone(<<"a", "b">>, <<"A", "A">>, None,
          None,
          << >>,
          << >>,
          << >>,
          << >>,
          << >>)

PhoneD ==
    Phone(<<"1", "-">>, <<"b", "b">>, Some(<<"B">>),
          Some(<< Tok(TRUE, 5000, "") >>),
          << Tok(FALSE, 16, "GB") >>,
          << Tok(FALSE, 5000, "mAh") >>,
          << >>,
          << >>,
          << Entry(<< Tok(FALSE, 90, "Hz") >>) >>)

Phones == {PhoneA, PhoneB, PhoneC, PhoneD}

\* the stores: rows with pairwise distinct ids (id is the primary key)
Catalogs ==
    UNION {{rows \in [1..n -> Phones] :
               \A i, j \in 1..n : i # j => rows[i].id # rows[j].id} : n \in 0..MaxRows}

\* the identifiers and brands a caller passes
Identifiers ==
    {<< >>, <<"b">>, <<"B">>, <<"1">>, <<"a", "1">>, <<"A", "1">>, <<"a", "b">>, <<"-", "-">>}

Brands == {<< >>, <<"a">>, <<"B">>}

OptionOf(S) == {None} \cup {Some(v) : v \in S}

---------------------------------------------------------------------------
(* database.py.  Its rows name the phone name "model" and the brand       *)
(* "brand"; the tools read the same rows under phone_name and brand_name,  *)
(* the names used here.                                                    *)

\* a store whose rows can be read once
get_all_phones_consumed == IF memo = NoCall THEN catalog ELSE << >>

get_all_phones == catalog

\* get_phone_by_id with a partial match in place of the equality
get_phone_by_id_partial(phone_id) ==
    LET hits == {i \in 1..Len(catalog) : Contains(catalog[i].id, phone_id)}
    IN  IF hits = {} THEN None ELSE Some(catalog[Min(hits)])

get_phone_by_id(phone_id) ==
    LET hits == {i \in 1..Len(catalog) : catalog[i].id = phone_id}
    IN  IF hits = {} THEN None ELSE Some(catalog[Min(hits)])

get_phone_by_model(model_name) ==
    LET model_lower == Lower(model_name)
        hits == {i \in 1..Len(catalog) :
                    \/ Contains(Lower(catalog[i].phone_name), model_lower)
                    \/ Contains(Lower(catalog[i].id), model_lower)}
    IN  IF hits = {} THEN None ELSE Some(catalog[Min(hits)])

---------------------------------------------------------------------------
(* tools.py *)

\* a or b, for two Optional values
Or(a, b) == IF IsNone(a) THEN b ELSE a

\* filters_applied with an entry for every parameter
Filters_all(a) == [k \in DOMAIN a |-> a[k]]

\* the filters dict: one key for each criterion that is not None
Filters(a) ==
    LET keys == {k \in DOMAIN a : ~IsNone(a[k])}
    IN  [k \in keys |-> Val(a[k])]

\* brand and phone.get("brand_name", "").lower() != brand.lower()
BrandSkips(phone, brand) ==
    /\ Truthy(brand)
    /\ Lower(IF IsNone(phone.brand_name) THEN << >> ELSE Val(phone.brand_name))
         # Lower(Val(brand))

\* criterion is not None and value is not None and value > criterion
AboveSkips(criterion, value) ==
    ~IsNone(criterion) /\ ~IsNone(value) /\ Val(value) > Val(criterion)

\* BelowSkips without the test that the derived value is present
BelowSkips_absent_fails(criterion, value) ==
    ~IsNone(criterion) /\ (IsNone(value) \/ Val(value) < Val(criterion))

\* criterion is not None and value is not None and value < criterion
BelowSkips(criterion, value) ==
    ~IsNone(criterion) /\ ~IsNone(value) /\ Val(value) < Val(criterion)

\* one pass of the loop body: TRUE when the phone reaches results.append
Appended(phone, a) ==
    LET price_value == _parse_lowest_price(phone)
        ram_value == _parse_max_ram(phone)
        battery_value == _parse_battery_capacity(phone)
        refresh_value == _parse_refresh_rate(phone)
    IN  IF BrandSkips(phone, a.brand) THEN FALSE
        ELSE IF AboveSkips(a.max_price, price_value) THEN FALSE
        ELSE IF BelowSkips(a.min_price, price_value) THEN FALSE
        ELSE IF BelowSkips(a.min_ram, ram_value) THEN FALSE
        ELSE IF BelowSkips(a.battery_threshold, battery_value) THEN FALSE
        ELSE IF BelowSkips(a.refresh_rate, refresh_value) THEN FALSE
        ELSE TRUE

\* for phone in raw_phones: results grows by the phones that are not skipped
RECURSIVE SearchLoop(_, _, _)
SearchLoop(raw_phones, a, results) ==
    IF raw_phones = << >> THEN results
    ELSE SearchLoop(Tail(raw_phones), a,
                    IF Appended(Head(raw_phones), a)
                    THEN Append(results, Head(raw_phones))
                    ELSE results)

\* the four normalizers run on every phone before any test, outside any try
RowRaises(phone) ==
    \/ _parse_lowest_price_raises(phone)
    \/ _parse_max_ram_raises(phone)
    \/ _parse_battery_capacity_raises(phone)
    \/ _parse_refresh_rate_raises(phone)

search_phones_by_filters(a) ==
    LET results == SearchLoop(get_all_phones, a, << >>)
    IN  IF \E i \in 1..Len(get_all_phones) : RowRaises(get_all_phones[i])
        THEN Raised
        ELSE [success |-> TRUE,
              count |-> Len(results),
              filters_applied |-> Filters(a),
              phones |-> results,
              message |-> <<"Found", Len(results)>>]

\* get_phone_details without the lookup by model name
get_phone_details_id_only(phone_id) ==
    LET phone == get_phone_by_id(phone_id)
    IN  IF IsNone(phone)
        THEN [success |-> FALSE,
              error |-> <<"not found", phone_id>>,
              message |-> "Please check the phone ID and try again"]
        ELSE [success |-> TRUE,
              phone |-> Val(phone),
              message |-> "Raw phone data returned from Supabase."]

get_phone_details(phone_id) ==
    LET record == get_phone_by_id(phone_id)
        phone == IF IsNone(record) THEN get_phone_by_model(phone_id) ELSE record
    IN  IF IsNone(phone)
        THEN [success |-> FALSE,
              error |-> <<"not found", phone_id>>,
              message |-> "Please check the phone ID and try again"]
        ELSE [success |-> TRUE,
              phone |-> Val(phone),
              message |-> "Raw phone data returned from Supabase."]

list_all_phones ==
    LET phones == get_all_phones
    IN  [success |-> TRUE,
         total |-> Len(phones),
         phones |-> phones,
         message |-> <<"Retrieved", Len(phones)>>]

\* compare_phones that also fails when a third id is given and not found
compare_phones_all_required(phone_id_1, phone_id_2, phone_id_3) ==
    LET phone_1 == Or(get_phone_by_id(phone_id_1), get_phone_by_model(phone_id_1))
        phone_2 == Or(get_phone_by_id(phone_id_2), get_phone_by_model(phone_id_2))
        phone_3 == IF Truthy(phone_id_3)
                   THEN Or(get_phone_by_id(Val(phone_id_3)),
                           get_phone_by_model(Val(phone_id_3)))
                   ELSE None
    IN  IF IsNone(phone_1) \/ IsNone(phone_2) \/ (Truthy(phone_id_3) /\ IsNone(phone_3))
        THEN [success |-> FALSE,
              error |-> "One or more phones not found",
              message |-> "Please check the phone IDs and try again"]
        ELSE [success |-> TRUE,
              phones |-> << Val(phone_1), Val(phone_2) >>
                         \o (IF IsNone(phone_3) THEN << >> ELSE << Val(phone_3) >>),
              message |-> "Raw phone records ready for LLM-driven comparison."]

compare_phones(phone_id_1, phone_id_2, phone_id_3) ==
    LET phone_1 == Or(get_phone_by_id(phone_id_1), get_phone_by_model(phone_id_1))
        phone_2 == Or(get_phone_by_id(phone_id_2), get_phone_by_model(phone_id_2))
        phone_3 == IF Truthy(phone_id_3)
                   THEN Or(get_phone_by_id(Val(phone_id_3)),
                           get_phone_by_model(Val(phone_id_3)))
                   ELSE None
    IN  IF IsNone(phone_1) \/ IsNone(phone_2)
        THEN [success |-> FALSE,
              error |-> "One or more phones not found",
              message |-> "Please check the phone IDs and try again"]
        ELSE [success |-> TRUE,
              phones |-> << Val(phone_1), Val(phone_2) >>
                         \o (IF IsNone(phone_3) THEN << >> ELSE << Val(phone_3) >>),
              message |-> "Raw phone records ready for LLM-driven comparison."]

---------------------------------------------------------------------------
(* The catalog store queries each tool makes: one for each call of a       *)
(* database.py function it reaches                                         *)

\* get_all_phones()
search_phones_by_filters_queries == 1

\* get_all_phones()
list_all_phones_queries == 1

\* a lookup that calls get_phone_by_model whatever get_phone_by_id returned
LookupQueries_no_short_circuit(identifier) == 2

\* get_phone_by_id(x) or get_phone_by_model(x): the second call is made only
\* when the first one returned None
LookupQueries(identifier) == IF IsNone(get_phone_by_id(identifier)) THEN 2 ELSE 1

\* get_phone_by_id, then get_phone_by_model under "if not phone"
get_phone_details_queries(phone_id) == LookupQueries(phone_id)

compare_phones_queries(phone_id_1, phone_id_2, phone_id_3) ==
    LookupQueries(phone_id_1) + LookupQueries(phone_id_2)
    + (IF Truthy(phone_id_3) THEN LookupQueries(Val(phone_id_3)) ELSE 0)

---------------------------------------------------------------------------
(* explain_phone_feature (tools.py): the glossary and its lookup.  An      *)
(* entry is modelled by its name; the dict keeps its insertion order.      *)

raw_explanations ==
    <<[key |-> <<"o", "i", "s">>,
      value |-> [name |-> "Optical Image Stabilization (OIS)"]],
     [key |-> <<"e", "i", "s">>,
      value |-> [name |-> "Electronic Image Stabilization (EIS)"]],
     [key |-> <<"o", "i", "s", " ", "v", "s", " ", "e", "i", "s">>,
      value |-> [name |-> "OIS vs EIS"]],
     [key |-> <<"5", "g">>,
      value |-> [name |-> "5G Connectivity"]],
     [key |-> <<"w", "i", "f", "i", " ", "6", "e">>,
      value |-> [name |-> "Wi-Fi 6E"]],
     [key |-> <<"o", "l", "e", "d">>,
      value |-> [name |-> "OLED Display"]],
     [key |-> <<"l", "c", "d">>,
      value |-> [name |-> "LCD Display"]],
     [key |-> <<"r", "e", "f", "r", "e", "s", "h", " ", "r", "a", "t", "e">>,
      value |-> [name |-> "Display Refresh Rate"]],
     [key |-> <<"p", "w", "m", " ", "d", "i", "m", "m", "i", "n", "g">>,
      value |-> [name |-> "High-Frequency PWM Dimming"]],
     [key |-> <<"c", "a", "m", "e", "r", "a", " ", "m", "e", "g", "a", "p", "i", "x", "e", "l", "s">>,
      value |-> [name |-> "Camera Megapixels"]],
     [key |-> <<"s", "e", "n", "s", "o", "r", " ", "s", "i", "z", "e">>,
      value |-> [name |-> "Camera Sensor Size"]],
     [key |-> <<"h", "d", "r">>,
      value |-> [name |-> "HDR (High Dynamic Range) Video/Photo"]],
     [key |-> <<"b", "a", "t", "t", "e", "r", "y", " ", "c", "a", "p", "a", "c", "i", "t", "y">>,
      value |-> [name |-> "Battery Capacity"]],
     [key |-> <<"f", "a", "s", "t", " ", "c", "h", "a", "r", "g", "i", "n", "g">>,
      value |-> [name |-> "Fast Wired Charging"]],
     [key |-> <<"w", "i", "r", "e", "l", "e", "s", "s", " ", "c", "h", "a", "r", "g", "i", "n", "g">>,
      value |-> [name |-> "Qi Wireless Charging"]],
     [key |-> <<"r", "a", "m">>,
      value |-> [name |-> "Random Access Memory (RAM)"]],
     [key |-> <<"s", "t", "o", "r", "a", "g", "e">>,
      value |-> [name |-> "UFS Storage"]],
     [key |-> <<"c", "h", "i", "p", "s", "e", "t", " ", "t", "i", "e", "r", "s">>,
      value |-> [name |-> "Mobile Chipset Tiers"]],
     [key |-> <<"a", "n", "d", "r", "o", "i", "d", " ", "u", "p", "d", "a", "t", "e", "s">>,
      value |-> [name |-> "Android Update Policy"]],
     [key |-> <<"i", "p", " ", "r", "a", "t", "i", "n", "g">>,
      value |-> [name |-> "Ingress Protection (IP) Rating"]],
     [key |-> <<"g", "o", "r", "i", "l", "l", "a", " ", "g", "l", "a", "s", "s">>,
      value |-> [name |-> "Corning Gorilla Glass"]],
     [key |-> <<"p", "w", "m">>,
      value |-> [name |-> "PWM (Pulse-Width Modulation)"]]>>

\* {key.lower(): value for key, value in raw_explanations.items()}: the keys
\* are distinct after lowercasing, so every item stays at its place
explanations ==
    [i \in 1..Len(raw_explanations) |->
        [key |-> Lower(raw_explanations[i].key), value |-> raw_explanations[i].value]]

\* list(explanations.keys())
Keys == [i \in 1..Len(explanations) |-> explanations[i].key]

\* the exact-match lookup skipped
ExactKeys_skipped(feature_lower) == {}

\* feature_lower in explanations: the places of the keys equal to it
ExactKeys(feature_lower) ==
    {i \in 1..Len(explanations) : explanations[i].key = feature_lower}

\* the partial-match test in one direction only
PartialMatch_key_in_query(key, feature_lower) == Contains(feature_lower, key)

\* key in feature_lower or feature_lower in key
PartialMatch(key, feature_lower) ==
    Contains(feature_lower, key) \/ Contains(key, feature_lower)

\* the loop that returns at the last match
FirstMatch_last(feature_lower) ==
    LET hits == {i \in 1..Len(explanations) : PartialMatch(explanations[i].key, feature_lower)}
    IN  IF hits = {} THEN None ELSE Some(Max(hits))

\* for key, value in explanations.items(): the place where the loop returns
FirstMatch(feature_lower) ==
    LET hits == {i \in 1..Len(explanations) : PartialMatch(explanations[i].key, feature_lower)}
    IN  IF hits = {} THEN None ELSE Some(Min(hits))

explain_phone_feature(feature) ==
    LET feature_lower == Lower(feature)
    IN  IF ExactKeys(feature_lower) # {}
        THEN [success |-> TRUE,
              feature |-> explanations[CHOOSE i \in ExactKeys(feature_lower) : TRUE].value]
        ELSE IF ~IsNone(FirstMatch(feature_lower))
        THEN [success |-> TRUE,
              feature |-> explanations[Val(FirstMatch(feature_lower))].value]
        ELSE [success |-> FALSE,
              error |-> <<"not found", feature>>,
              message |-> <<"Available explanations", Keys>>,
              available_features |-> Keys]

\* explain_phone_feature reads the glossary only
explain_phone_feature_queries == 0

\* the features a caller asks about: "", "pwm", "PWM", "What is OIS vs EIS",
\* "hdr10", "charging", "g", "Wireless Charging speed", "zoom", "ram"
Features ==
    {<< >>,
     <<"p", "w", "m">>,
     <<"P", "W", "M">>,
     <<"W", "h", "a", "t", " ", "i", "s", " ", "O", "I", "S", " ", "v", "s", " ", "E", "I", "S">>,
     <<"h", "d", "r", "1", "0">>,
     <<"c", "h", "a", "r", "g", "i", "n", "g">>,
     <<"g">>,
     <<"W", "i", "r", "e", "l", "e", "s", "s", " ", "C", "h", "a", "r", "g", "i", "n", "g", " ", "s", "p", "e", "e", "d">>,
     <<"z", "o", "o", "m">>,
     <<"r", "a", "m">>}

---------------------------------------------------------------------------
(* The tools as the agent layer invokes them *)

SearchArgs ==
    [max_price : OptionOf({0, 2500}),
     min_price : OptionOf({2500}),
     brand : OptionOf(Brands),
     min_ram : OptionOf({8}),
     battery_threshold : OptionOf({4000}),
     refresh_rate : OptionOf({90})]

IdleClient == [pc |-> "idle", store |-> "up", attempt |-> 0, elapsed |-> 0, rows |-> None]

\* nothing has happened yet
InitAux ==
    /\ memo = NoCall
    /\ reference = [cache |-> None, built |-> None, fetches |-> 0, refreshes |-> 0,
                    early |-> FALSE]
    /\ api = [sessions |-> {}, log |-> << >>, started |-> 0,
              req |-> [p \in Procs |-> [pc |-> "idle"]]]

Init ==
    /\ catalog \in Catalogs
    /\ call = NoCall
    /\ ret = NoCall
    /\ queries = 0
    /\ client = IdleClient
    /\ InitAux

SearchPhonesByFiltersWith(a) ==
    /\ call = NoCall
    /\ call' = [tool |-> "search_phones_by_filters", args |-> a]
    /\ ret' = search_phones_by_filters(a)
    /\ queries' = search_phones_by_filters_queries
    /\ UNCHANGED <<catalog, client, aux>>

SearchPhonesByFilters == \E a \in SearchArgs : SearchPhonesByFiltersWith(a)

GetPhoneDetails ==
    \E phone_id \in Identifiers :
        /\ call = NoCall
        /\ call' = [tool |-> "get_phone_details", phone_id |-> phone_id]
        /\ ret' = get_phone_details(phone_id)
        /\ queries' = get_phone_details_queries(phone_id)
        /\ UNCHANGED <<catalog, client, aux>>

ListAllPhones ==
    /\ call = NoCall
    /\ call' = [tool |-> "list_all_phones"]
    /\ ret' = list_all_phones
    /\ queries' = list_all_phones_queries
    /\ UNCHANGED <<catalog, client, aux>>

ComparePhonesWith(phone_id_1, phone_id_2, phone_id_3) ==
    /\ call = NoCall
    /\ call' = [tool |-> "compare_phones", phone_id_1 |-> phone_id_1,
                phone_id_2 |-> phone_id_2, phone_id_3 |-> phone_id_3]
    /\ ret' = compare_phones(phone_id_1, phone_id_2, phone_id_3)
    /\ queries' = compare_phones_queries(phone_id_1, phone_id_2, phone_id_3)
    /\ UNCHANGED <<catalog, client, aux>>

ComparePhones ==
    \E phone_id_1 \in Identifiers, phone_id_2 \in Identifiers,
       phone_id_3 \in OptionOf(Identifiers) :
        ComparePhonesWith(phone_id_1, phone_id_2, phone_id_3)

ExplainPhoneFeature ==
    \E feature \in Features :
        /\ call = NoCall
        /\ call' = [tool |-> "explain_phone_feature", feature |-> feature]
        /\ ret' = explain_phone_feature(feature)
        /\ queries' = explain_phone_feature_queries
        /\ UNCHANGED <<catalog, client, aux>>

\* the agent layer takes the result; tool execution is request-scoped and
\* single-threaded, so the next invocation starts after it
Respond ==
    /\ call # NoCall
    /\ call' = NoCall
    /\ ret' = NoCall
    /\ queries' = 0
    /\ UNCHANGED <<catalog, client, aux>>

Next ==
    \/ SearchPhonesByFilters
    \/ GetPhoneDetails
    \/ ListAllPhones
    \/ ComparePhones
    \/ ExplainPhoneFeature
    \/ Respond

Spec == Init /\ [][Next]_vars

---------------------------------------------------------------------------
(* The record normalizers on the rows a store can return: free text of     *)
(* every composition, and fields of another type than text.                *)

MaxTokens == 2

\* the texts of at most n tokens
Texts(tokens, n) == UNION {[1..k -> tokens] : k \in 0..n}

\* annotated prices, a small annotated number, a year, two small numbers
PriceTokens ==
    {Tok(TRUE, 47600, ""), Tok(TRUE, 52600, ""), Tok(TRUE, 500, ""),
     Tok(FALSE, 2025, ""), Tok(FALSE, 999, ""), Tok(FALSE, 64, "GB")}

\* "1." (the integer part of a decimal), 5 GB, 8 Gb, 12 MB
RamTokens ==
    {Tok(FALSE, 1, "."), Tok(FALSE, 5, "GB"), Tok(FALSE, 8, "Gb"), Tok(FALSE, 12, "MB")}

\* 4492 mAh, 3000 MAH, two digits, six digits
BatteryTokens ==
    {Tok(FALSE, 4492, "mAh"), Tok(FALSE, 3000, "MAH"), Tok(FALSE, 50, "mAh"),
     Tok(FALSE, 123456, "mah")}

\* a category of no entry, of one entry, or of two entries of at most one token
Categories(tokens) ==
    {<< >>} \cup {<< Entry(t) >> : t \in Texts(tokens, MaxTokens)}
    \cup {<< Entry(t1), Entry(t2) >> : t1, t2 \in Texts(tokens, 1)}

\* "64GB 4GB RAM: Rs 47,600, 128GB 4GB RAM: Rs 52,600"
PriceExample ==
    << Tok(FALSE, 64, "GB"), Tok(FALSE, 4, "GB"), Tok(TRUE, 47600, ""),
       Tok(FALSE, 128, "GB"), Tok(FALSE, 4, "GB"), Tok(TRUE, 52600, "") >>

PricePhones ==
    {Phone(<<"p">>, <<"p">>, None, Some(t), << >>, << >>, << >>, << >>, << >>) :
        t \in Texts(PriceTokens, MaxTokens) \cup {PriceExample}}

RamPhones ==
    {Phone(<<"r">>, <<"r">>, None, None, t, << >>, c, << >>, << >>) :
        t \in Texts(RamTokens, MaxTokens), c \in Categories(RamTokens)}

BatteryPhones ==
    {Phone(<<"m">>, <<"m">>, None, None, << >>, t, << >>, c, << >>) :
        t \in Texts(BatteryTokens, MaxTokens), c \in Categories(BatteryTokens)}

\* a row with nothing to parse in which one field has another type
WithShape(field, kind) == [PhoneC EXCEPT !.shape[field] = kind]

\* a row with nothing to parse but one category, which holds an entry whose
\* info is not text, alone, before or after an entry that has a match
WithEntries(category, entries) == [PhoneC EXCEPT !.all_specs[category] = entries]

EntryKinds == {"missing", "null", "number", "zero"}

MatchFor(category) ==
    CASE category = "Memory" -> Entry(<< Tok(FALSE, 8, "GB") >>)
      [] category = "Battery" -> Entry(<< Tok(FALSE, 4492, "mAh") >>)
      [] category = "Display" -> Entry(<< Tok(FALSE, 120, "Hz") >>)

MalformedPhones ==
    {WithShape(field, kind) : field \in DOMAIN WellFormed, kind \in {"null", "number", "zero"}}
    \cup UNION {{WithEntries(category, << EntryOfKind(kind) >>),
                 WithEntries(category, << EntryOfKind(kind), MatchFor(category) >>),
                 WithEntries(category, << MatchFor(category), EntryOfKind(kind) >>)} :
                    category \in {"Memory", "Battery", "Display"}, kind \in EntryKinds}

\* the stores: one row of free text, or a row with a field of another type
\* alone, before or after a row of the static catalog
Records ==
    {<< phone >> : phone \in PricePhones \cup RamPhones \cup BatteryPhones \cup MalformedPhones}
    \cup {<< m, phone >> : m \in MalformedPhones, phone \in {PhoneA, PhoneD}}
    \cup {<< phone, m >> : m \in MalformedPhones, phone \in {PhoneA, PhoneD}}

NoCriteria ==
    [max_price |-> None, min_price |-> None, brand |-> None, min_ram |-> None,
     battery_threshold |-> None, refresh_rate |-> None]

RecordSearchArgs ==
    {NoCriteria, [NoCriteria EXCEPT !.max_price = Some(2500)],
     [NoCriteria EXCEPT !.min_ram = Some(8)],
     [NoCriteria EXCEPT !.battery_threshold = Some(4000)]}

\* a call of a normalizer on one row
Normalize(name, phone, raises, value) ==
    /\ call = NoCall
    /\ call' = [tool |-> name, phone |-> phone]
    /\ ret' = IF raises THEN Raised ELSE Returned(value)
    /\ UNCHANGED <<catalog, queries, client, aux>>

InitNormalize ==
    /\ catalog \in Records
    /\ call = NoCall
    /\ ret = NoCall
    /\ queries = 0
    /\ client = IdleClient
    /\ InitAux

ParseLowestPrice ==
    \E i \in 1..Len(catalog) :
        Normalize("_parse_lowest_price", catalog[i],
                  _parse_lowest_price_raises(catalog[i]), _parse_lowest_price(catalog[i]))

ParseMaxRam ==
    \E i \in 1..Len(catalog) :
        Normalize("_parse_max_ram", catalog[i],
                  _parse_max_ram_raises(catalog[i]), _parse_max_ram(catalog[i]))

ParseBatteryCapacity ==
    \E i \in 1..Len(catalog) :
        Normalize("_parse_battery_capacity", catalog[i],
                  _parse_battery_capacity_raises(catalog[i]), _parse_battery_capacity(catalog[i]))

ParseRefreshRate ==
    \E i \in 1..Len(catalog) :
        Normalize("_parse_refresh_rate", catalog[i],
                  _parse_refresh_rate_raises(catalog[i]), _parse_refresh_rate(catalog[i]))

SearchRecords == \E a \in RecordSearchArgs : SearchPhonesByFiltersWith(a)

NextNormalize ==
    \/ ParseLowestPrice
    \/ ParseMaxRam
    \/ ParseBatteryCapacity
    \/ ParseRefreshRate
    \/ SearchRecords
    \/ Respond

SpecNormalize == InitNormalize /\ [][NextNormalize]_vars

---------------------------------------------------------------------------
(* The tools invoked again: an earlier invocation is kept, with its result *)
(* and the catalog it ran against, while other invocations go by.          *)

\* the invocations counted after the one that is kept
MaxBetween == 1

ReplayIdentifiers == {<<"b">>, <<"a", "1">>}

CompareReplay ==
    \E phone_id_1 \in ReplayIdentifiers, phone_id_2 \in ReplayIdentifiers,
       phone_id_3 \in {None, Some(<<"1">>)} :
        ComparePhonesWith(phone_id_1, phone_id_2, phone_id_3)

\* the agent layer takes the result, and this invocation is the one kept
ReplayRemember ==
    /\ call # NoCall
    /\ memo = NoCall
    /\ memo' = [call |-> call, ret |-> ret, catalog |-> catalog, between |-> 0]
    /\ call' = NoCall
    /\ ret' = NoCall
    /\ queries' = 0
    /\ UNCHANGED <<catalog, client, reference, api>>

\* the agent layer takes the result of another invocation
ReplayRespond ==
    /\ call # NoCall
    /\ memo' = IF memo = NoCall \/ memo.between = MaxBetween THEN memo
               ELSE [memo EXCEPT !.between = @ + 1]
    /\ call' = NoCall
    /\ ret' = NoCall
    /\ queries' = 0
    /\ UNCHANGED <<catalog, client, reference, api>>

NextReplay ==
    \/ SearchRecords
    \/ GetPhoneDetails
    \/ ListAllPhones
    \/ CompareReplay
    \/ ExplainPhoneFeature
    \/ ReplayRemember
    \/ ReplayRespond

SpecReplay == Init /\ [][NextReplay]_vars

---------------------------------------------------------------------------
(* agent_instructions.py: the phone-id reference and its cache.  A text is *)
(* the sequence of its lines.                                              *)

MAX_ENTRIES == 200

NAME_WIDTH == 36

\* the calls of the getters and of refresh_phone_reference that are counted
MaxCalls == 2

LoadFailure == << [kind |-> "could not be loaded"] >>

NoPhones == << [kind |-> "no phones loaded"] >>

Heading ==
    << [kind |-> "use the exact id"], [kind |-> ""], [kind |-> "phone name | id"],
       [kind |-> "---------- | --"] >>

\* textwrap.shorten(text, width, placeholder="...") of a text without
\* whitespace: the text when it fits, the placeholder alone when not
shorten(text, width) == IF Len(text) <= width THEN text ELSE <<".", ".", ".">>

\* the loop without the test of phone_id
KeepsEntry_any(entry) == TRUE

\* if not phone_id: continue
KeepsEntry(entry) == entry.id # << >>

\* f"{display_name} | {phone_id}"
ReferenceLine(entry) ==
    [kind |-> "row",
     display_name |-> IF entry.phone_name # << >>
                      THEN shorten(entry.phone_name, NAME_WIDTH) ELSE entry.id,
     phone_id |-> entry.id]

\* for entry in phones[:max_entries]: the lines appended
RECURSIVE ReferenceLines(_)
ReferenceLines(entries) ==
    IF entries = << >> THEN << >>
    ELSE (IF KeepsEntry(Head(entries)) THEN << ReferenceLine(Head(entries)) >> ELSE << >>)
         \o ReferenceLines(Tail(entries))

\* phones[:max_entries] for max_entries >= 0
Slice(phones, max_entries) ==
    SubSeq(phones, 1, IF max_entries < Len(phones) THEN max_entries ELSE Len(phones))

\* raises: list_all_phones() raised
_build_phone_id_reference(max_entries, raises) ==
    LET phones == list_all_phones.phones
    IN  IF raises THEN LoadFailure
        ELSE IF phones = << >> THEN NoPhones
        ELSE Heading \o ReferenceLines(Slice(phones, max_entries))
             \o (IF Len(phones) > max_entries
                 THEN << [kind |-> "more", remaining |-> Len(phones) - max_entries] >>
                 ELSE << >>)

\* a row without id, a row without phone_name, a row with a long name
PhoneNoId == [PhoneB EXCEPT !.id = << >>]

PhoneNoName == [PhoneC EXCEPT !.phone_name = << >>]

PhoneLongName == [PhoneD EXCEPT !.phone_name = [i \in 1..(NAME_WIDTH + 1) |-> "a"]]

\* the stores the reference is built from
ReferenceCatalogs ==
    LET rows == {PhoneA, PhoneNoId, PhoneNoName, PhoneLongName}
    IN  UNION {{c \in [1..n -> rows] : \A i, j \in 1..n : i # j => c[i] # c[j]} :
                  n \in 0..MaxRows}

MaxEntries == {0, 1, 2, MAX_ENTRIES}

InitReference ==
    /\ catalog \in ReferenceCatalogs
    /\ call = NoCall
    /\ ret = NoCall
    /\ queries = 0
    /\ client = IdleClient
    /\ InitAux

\* a call of the builder alone
BuildPhoneIdReference ==
    \E max_entries \in MaxEntries, raises \in BOOLEAN :
        /\ call = NoCall
        /\ call' = [tool |-> "_build_phone_id_reference", max_entries |-> max_entries,
                    raises |-> raises]
        /\ ret' = [text |-> _build_phone_id_reference(max_entries, raises)]
        /\ UNCHANGED <<catalog, queries, client, aux>>

\* a cache that never answers
CacheHit_never(cache) == FALSE

\* if _PHONE_REFERENCE_CACHE:
CacheHit(cache) == Truthy(cache)

\* _get_phone_reference on the cache `cache`: the cache afterwards.  built
\* and fetches record the builds: the text of the last one and their number.
_get_phone_reference(ref, max_entries, raises) ==
    IF CacheHit(ref.cache) THEN ref
    ELSE [ref EXCEPT !.cache = Some(_build_phone_id_reference(max_entries, raises)),
                     !.built = Some(_build_phone_id_reference(max_entries, raises)),
                     !.fetches = @ + 1]

\* get_phone_reference_text and the four get_*_agent_instruction
Getters ==
    {"get_phone_reference_text", "get_shopping_agent_instruction",
     "get_recommendation_agent_instruction", "get_comparison_agent_instruction",
     "get_root_agent_instruction"}

\* the text before the reference in what a getter returns
InstructionOf(getter) == IF getter = "get_phone_reference_text" THEN "" ELSE getter

\* a getter: _get_phone_reference() with the default max_entries (the guard
\* on fetches caps the counter: one build by a getter, one per refresh)
GetReference ==
    \E getter \in Getters, raises \in BOOLEAN :
        LET after == _get_phone_reference(reference, MAX_ENTRIES, raises)
        IN  /\ call = NoCall
            /\ after.fetches <= MaxCalls + 1
            /\ call' = [tool |-> getter]
            /\ ret' = [instruction |-> InstructionOf(getter), text |-> Val(after.cache)]
            /\ reference' = [after EXCEPT !.early = @ \/ reference.refreshes = 0]
            /\ UNCHANGED <<catalog, queries, client, memo, api>>

\* refresh_phone_reference(max_entries): the cache is dropped, then read
RefreshPhoneReference ==
    \E max_entries \in MaxEntries, raises \in BOOLEAN :
        LET after == _get_phone_reference([reference EXCEPT !.cache = None],
                                          max_entries, raises)
        IN  /\ call = NoCall
            /\ reference.refreshes < MaxCalls
            /\ call' = [tool |-> "refresh_phone_reference", max_entries |-> max_entries]
            /\ ret' = [instruction |-> "", text |-> Val(after.cache)]
            /\ reference' = [after EXCEPT !.refreshes = @ + 1]
            /\ UNCHANGED <<catalog, queries, client, memo, api>>

NextReference ==
    \/ BuildPhoneIdReference
    \/ GetReference
    \/ RefreshPhoneReference
    \/ Respond

SpecReference == InitReference /\ [][NextReference]_vars

---------------------------------------------------------------------------
(* api.py: _ensure_session over session_service.  A session is its id and  *)
(* the serial of the create_session call that made it; log lists the ids   *)
(* create_session was called for, in call order.  A request stands before  *)
(* one of its two awaits ("get", "create") or has returned ("done").       *)

\* the chat requests started
MaxRequests == 3

\* str.strip() on the model's whitespace, the blank
RECURSIVE LStrip(_)
LStrip(text) ==
    IF text # << >> /\ Head(text) = " " THEN LStrip(Tail(text)) ELSE text

RECURSIVE RStrip(_)
RStrip(text) ==
    IF text # << >> /\ text[Len(text)] = " "
    THEN RStrip(SubSeq(text, 1, Len(text) - 1)) ELSE text

strip(text) == RStrip(LStrip(text))

\* the session_id of a chat request: missing, "", " ", "s", " s ", "t"
SessionIds ==
    {None, Some(<< >>), Some(<<" ">>), Some(<<"s">>), Some(<<" ", "s", " ">>),
     Some(<<"t">>)}

\* the id session_service generates for the n-th create_session call
Serials == <<"1", "2", "3", "4">>

GeneratedId(n) == <<"#", Serials[n]>>

\* a lookup that finds nothing
get_session_none(sessions, session_id) == None

\* session_service.get_session: the session with that id, or None
get_session(sessions, session_id) ==
    IF \E session \in sessions : session.id = session_id
    THEN Some(CHOOSE session \in sessions : session.id = session_id)
    ELSE None

\* session_service.create_session(session_id=cleaned_session_id) as call
\* number n: a session under the id given, or under a generated id when the
\* id is None or ""
create_session(sessions, cleaned_session_id, n) ==
    LET id == IF Truthy(cleaned_session_id) THEN Val(cleaned_session_id) ELSE GeneratedId(n)
    IN  [session |-> [id |-> id, serial |-> n],
         sessions |-> {session \in sessions : session.id # id} \cup {[id |-> id, serial |-> n]}]

\* chat_endpoint calls _ensure_session(payload.session_id):
\* cleaned_session_id = session_id.strip() if session_id else None
EnsureSession(p, session_id) ==
    LET cleaned_session_id == IF Truthy(session_id) THEN Some(strip(Val(session_id)))
                              ELSE None
    IN  /\ api.req[p].pc = "idle"
        /\ api.started < MaxRequests
        /\ api' = [api EXCEPT
                      !.started = @ + 1,
                      !.req[p] = [pc |-> IF Truthy(cleaned_session_id) THEN "get" ELSE "create",
                                  session_id |-> session_id,
                                  cleaned_session_id |-> cleaned_session_id,
                                  before |-> api.sessions,
                                  created |-> FALSE,
                                  returned |-> None]]
        /\ UNCHANGED <<catalog, call, ret, queries, client, memo, reference>>

\* await session_service.get_session(...); if existing_session: return
GetSession(p) ==
    LET existing_session == get_session(api.sessions, Val(api.req[p].cleaned_session_id))
    IN  /\ api.req[p].pc = "get"
        /\ api' = IF ~IsNone(existing_session)
                  THEN [api EXCEPT !.req[p].pc = "done",
                                   !.req[p].returned = api.req[p].cleaned_session_id]
                  ELSE [api EXCEPT !.req[p].pc = "create"]
        /\ UNCHANGED <<catalog, call, ret, queries, client, memo, reference>>

\* await session_service.create_session(...); return created_session.id
CreateSession(p) ==
    LET created == create_session(api.sessions, api.req[p].cleaned_session_id,
                                  Len(api.log) + 1)
    IN  /\ api.req[p].pc = "create"
        /\ api' = [api EXCEPT !.sessions = created.sessions,
                              !.log = Append(@, created.session.id),
                              !.req[p].pc = "done",
                              !.req[p].created = TRUE,
                              !.req[p].returned = Some(created.session.id)]
        /\ UNCHANGED <<catalog, call, ret, queries, client, memo, reference>>

\* the request is answered
Answered(p) ==
    /\ api.req[p].pc = "done"
    /\ api' = [api EXCEPT !.req[p] = [pc |-> "idle"]]
    /\ UNCHANGED <<catalog, call, ret, queries, client, memo, reference>>

InitSession ==
    /\ catalog = << >>
    /\ call = NoCall
    /\ ret = NoCall
    /\ queries = 0
    /\ client = IdleClient
    /\ InitAux

\* one request at a time
NextSession ==
    \/ \E session_id \in SessionIds : EnsureSession(1, session_id)
    \/ GetSession(1)
    \/ CreateSession(1)
    \/ Answered(1)

SpecSession == InitSession /\ [][NextSession]_vars

\* requests in flight together: the event loop runs another request while
\* one is suspended at an await
NextConcurrent ==
    \/ \E p \in Procs, session_id \in SessionIds : EnsureSession(p, session_id)
    \/ \E p \in Procs : GetSession(p)
    \/ \E p \in Procs : CreateSession(p)
    \/ \E p \in Procs : Answered(p)

SpecConcurrent == InitSession /\ [][NextConcurrent]_vars

---------------------------------------------------------------------------
(* api.py: the reply taken from the events of an agent run.  An event is   *)
(* its is_final_response marker, its author and its content; a content is  *)
(* None or the sequence of its parts, a part is its text or None.          *)

\* the events of one agent run
MaxEvents == 3

\* "".join(text_chunks) over the parts whose text is truthy
RECURSIVE JoinParts(_)
JoinParts(parts) ==
    IF parts = << >> THEN << >>
    ELSE (IF Truthy(Head(parts)) THEN Val(Head(parts)) ELSE << >>) \o JoinParts(Tail(parts))

_extract_text_from_event_content(event_content) ==
    IF IsNone(event_content) \/ Val(event_content) = << >> THEN << >>
    ELSE strip(JoinParts(Val(event_content)))

\* a run in which no event counts as a final response
_is_final_response_never(event) == FALSE

\* the marker is missing, a method that returns a bool or raises, or a
\* plain attribute: bool(marker()) with an exception read as False, or
\* bool(marker)
_is_final_response(event) == event.marker \in {"method true", "attribute true"}

\* for event in reversed(events), first loop: the place of the event whose
\* text is returned, 0 when the loop ends without a return
RECURSIVE FinalLoop(_, _)
FinalLoop(events, i) ==
    IF i = 0 THEN 0
    ELSE IF /\ _is_final_response(events[i])
            /\ _extract_text_from_event_content(events[i].content) # << >>
    THEN i
    ELSE FinalLoop(events, i - 1)

\* for event in reversed(events), second loop
RECURSIVE AuthorLoop(_, _)
AuthorLoop(events, i) ==
    IF i = 0 THEN 0
    ELSE IF /\ events[i].author # Some("user")
            /\ _extract_text_from_event_content(events[i].content) # << >>
    THEN i
    ELSE AuthorLoop(events, i - 1)

_extract_reply_from_events(events) ==
    IF FinalLoop(events, Len(events)) # 0
    THEN _extract_text_from_event_content(events[FinalLoop(events, Len(events))].content)
    ELSE IF AuthorLoop(events, Len(events)) # 0
    THEN _extract_text_from_event_content(events[AuthorLoop(events, Len(events))].content)
    ELSE << >>

Event(marker, author, content) == [marker |-> marker, author |-> author, content |-> content]

\* a final answer "hi" in two parts; a final event whose text is blank; an
\* agent event "x" that is not final; a user event "u"; an event without
\* author and content whose marker raises; a final event "f" authored by
\* the user; an agent event without parts
Events ==
    {Event("method true", Some("agent"), Some(<< Some(<<"h">>), None, Some(<<"i", " ">>) >>)),
     Event("method true", Some("agent"), Some(<< Some(<<" ">>) >>)),
     Event("method false", Some("agent"), Some(<< Some(<<"x">>) >>)),
     Event("missing", Some("user"), Some(<< Some(<<"u">>) >>)),
     Event("method raises", None, None),
     Event("attribute true", Some("user"), Some(<< Some(<<"f">>) >>)),
     Event("attribute false", Some("agent"), Some(<< >>))}

EventLists == UNION {[1..n -> Events] : n \in 0..MaxEvents}

\* chat_endpoint: reply = _extract_reply_from_events(events)
ExtractReply ==
    \E events \in EventLists :
        /\ call = NoCall
        /\ call' = [tool |-> "_extract_reply_from_events", events |-> events]
        /\ ret' = [reply |-> _extract_reply_from_events(events)]
        /\ UNCHANGED <<catalog, queries, client, aux>>

NextReply ==
    \/ ExtractReply
    \/ Respond

SpecReply == InitSession /\ [][NextReply]_vars

---------------------------------------------------------------------------
(* The catalog store client: one query under the retry policy.             *)
(* Delays are in tenths of a time unit.                                    *)

MAX_RETRIES == 3

RETRY_BASE_DELAY == 5

RETRY_MAX_DELAY == 8

\* the random jitter, in [0, 0.3) time units
Jitters == {0, 1, 2}

\* base * 2^(attempt-1), capped at the maximum delay
computeDelay(attempt) == Min({RETRY_BASE_DELAY * 2 ^ (attempt - 1), RETRY_MAX_DELAY})

\* a budget test that lets one more attempt through
Exhausted_off_by_one(attempt) == attempt > MAX_RETRIES

\* the attempt that has just raised was the last one of the budget
Exhausted(attempt) == attempt >= MAX_RETRIES

\* a store that is down raises on every attempt; a flaky one may also answer
InitRetry ==
    /\ catalog \in Catalogs
    /\ call = NoCall
    /\ ret = NoCall
    /\ queries = 0
    /\ \E store \in {"down", "flaky"} :
           client = [pc |-> "try", store |-> store, attempt |-> 0, elapsed |-> 0,
                     rows |-> None]
    /\ InitAux

\* the query execution step raises
QueryRaises ==
    /\ client.pc = "try"
    /\ client' = [client EXCEPT !.attempt = @ + 1,
                                !.pc = IF Exhausted(client.attempt + 1)
                                       THEN "raised" ELSE "sleep"]
    /\ UNCHANGED <<catalog, call, ret, queries, aux>>

\* the store answers: a well-formed row list is returned whole, any other
\* payload is zero rows
QueryResponds ==
    /\ client.pc = "try"
    /\ client.store = "flaky"
    /\ \E well_formed \in BOOLEAN :
           client' = [client EXCEPT !.attempt = @ + 1,
                                    !.pc = "returned",
                                    !.rows = Some(IF well_formed THEN catalog ELSE << >>)]
    /\ UNCHANGED <<catalog, call, ret, queries, aux>>

\* the sleep between two attempts
Backoff ==
    /\ client.pc = "sleep"
    /\ \E jitter \in Jitters :
           client' = [client EXCEPT !.elapsed = @ + computeDelay(client.attempt) + jitter,
                                    !.pc = "try"]
    /\ UNCHANGED <<catalog, call, ret, queries, aux>>

NextRetry ==
    \/ QueryRaises
    \/ QueryResponds
    \/ Backoff

SpecRetry == InitRetry /\ [][NextRetry]_vars

---------------------------------------------------------------------------
(* Properties of search_phones_by_filters *)

IsSearch == call.tool = "search_phones_by_filters"

NumericCriteria == {"max_price", "min_price", "min_ram", "battery_threshold", "refresh_rate"}

\* the derived value each numeric criterion is compared with
DerivedFor(k, phone) ==
    CASE k \in {"max_price", "min_price"} -> _parse_lowest_price(phone)
      [] k = "min_ram" -> _parse_max_ram(phone)
      [] k = "battery_threshold" -> _parse_battery_capacity(phone)
      [] k = "refresh_rate" -> _parse_refresh_rate(phone)

\* the criterion is supplied, the derived value is present, the comparison fails
ExcludedBy(k, a, phone) ==
    /\ ~IsNone(a[k])
    /\ ~IsNone(DerivedFor(k, phone))
    /\ IF k = "max_price"
       THEN Val(DerivedFor(k, phone)) > Val(a[k])
       ELSE Val(DerivedFor(k, phone)) < Val(a[k])

\* k is the only criterion of the call
OnlyCriterion(k, a) == \A other \in DOMAIN a : other # k => IsNone(a[other])

\* C1: a numeric criterion excludes a record exactly when the criterion is
\* supplied, the record's derived value is present and the comparison fails:
\* a record that some numeric criterion excludes is never returned, a record
\* that the only criterion of a call does not exclude is returned, and so a
\* record whose derived value is absent is returned for every criterion value.
C1_NumericCriteria ==
    IsSearch =>
        \A i \in 1..Len(catalog) :
            LET phone == catalog[i]
                returned == phone \in Range(ret.phones)
            IN  \A k \in NumericCriteria :
                    /\ ExcludedBy(k, call.args, phone) => ~returned
                    /\ OnlyCriterion(k, call.args) =>
                           (returned <=> ~ExcludedBy(k, call.args, phone))
                    /\ (OnlyCriterion(k, call.args) /\ IsNone(DerivedFor(k, phone)))
                           => returned

\* a min_ram=8 search over a store holding a row with unparseable RAM (kept)
\* and a row whose RAM parses to 4 (dropped)
C1_Witness ==
    /\ IsSearch
    /\ call.args.min_ram = Some(8)
    /\ OnlyCriterion("min_ram", call.args)
    /\ PhoneB \in Range(catalog) /\ PhoneB \notin Range(ret.phones)
    /\ PhoneC \in Range(catalog) /\ PhoneC \in Range(ret.phones)
    /\ _parse_max_ram(PhoneB) = Some(4)
    /\ _parse_max_ram(PhoneC) = None

\* the brand criterion as stated: brand_name present and equal to the
\* criterion, ignoring case
BrandMatches(phone, brand) ==
    /\ ~IsNone(phone.brand_name)
    /\ Lower(Val(phone.brand_name)) = Lower(brand)

\* C2: whenever the brand criterion is set (any value that is not None, ""
\* included), no returned record lacks a brand_name, and every returned
\* record's brand_name equals the criterion ignoring case.
C2_BrandExclusion ==
    (IsSearch /\ ~IsNone(call.args.brand)) =>
        \A i \in 1..Len(ret.phones) :
            BrandMatches(ret.phones[i], Val(call.args.brand))

\* the record passes every supplied criterion
PassesAll(phone) ==
    /\ ~IsNone(call.args.brand) => BrandMatches(phone, Val(call.args.brand))
    /\ \A k \in NumericCriteria : ~ExcludedBy(k, call.args, phone)

\* C3: phones is the subsequence of the store's rows, in store order, of the
\* records that pass every supplied criterion; the whole catalog when no
\* criterion is supplied.
C3_ConjunctionInStoreOrder ==
    IsSearch => ret.phones = SelectSeq(catalog, PassesAll)

---------------------------------------------------------------------------
(* Properties of identity resolution, get_phone_details and compare_phones *)

IsDetails == call.tool = "get_phone_details"

IsCompare == call.tool = "compare_phones"

\* the rows whose id equals the identifier
ExactRows(identifier) == {i \in 1..Len(catalog) : catalog[i].id = identifier}

\* the rows whose phone name contains the identifier, ignoring case
NameRows(identifier) ==
    {i \in 1..Len(catalog) : Contains(Lower(catalog[i].phone_name), Lower(identifier))}

\* C4: when a record's id equals the identifier, get_phone_details returns
\* that record and compare_phones puts it at the identifier's position, also
\* when an earlier row's name or id contains the identifier.
C4_ExactIdFirst ==
    /\ (IsDetails /\ ExactRows(call.phone_id) # {}) =>
           /\ ret.success
           /\ ret.phone.id = call.phone_id
    /\ (IsCompare /\ ExactRows(call.phone_id_1) # {} /\ ExactRows(call.phone_id_2) # {}) =>
           /\ ret.success
           /\ ret.phones[1].id = call.phone_id_1
           /\ ret.phones[2].id = call.phone_id_2
           /\ (Truthy(call.phone_id_3) /\ ExactRows(Val(call.phone_id_3)) # {}) =>
                  ret.phones[3].id = Val(call.phone_id_3)

\* the identifier is the id of the second row while the first row's name
\* contains it
C4_Witness ==
    /\ IsDetails
    /\ Len(catalog) >= 2
    /\ catalog[2].id = call.phone_id
    /\ 1 \in NameRows(call.phone_id)
    /\ ret.success /\ ret.phone = catalog[2]

\* C5: when no record's id equals the identifier, get_phone_details returns
\* the first row whose phone name contains the identifier ignoring case, and
\* not-found when no row's phone name contains it.
C5_NameFallback ==
    (IsDetails /\ ExactRows(call.phone_id) = {}) =>
        IF NameRows(call.phone_id) = {}
        THEN ~ret.success
        ELSE ret.success /\ ret.phone = catalog[Min(NameRows(call.phone_id))]

\* the two steps of identity resolution, as the tools run them
StepsFind(identifier) ==
    ~IsNone(get_phone_by_id(identifier)) \/ ~IsNone(get_phone_by_model(identifier))

C7_EmptyIdentifierFails ==
    /\ (IsDetails /\ call.phone_id = << >> /\ catalog # << >>) => ~ret.success
    /\ (IsCompare /\ catalog # << >>
          /\ (call.phone_id_1 = << >> \/ call.phone_id_2 = << >>)) => ~ret.success

Resolved(identifier) == Or(get_phone_by_id(identifier), get_phone_by_model(identifier))

\* C9: on success phones is [resolve(phone_id_1), resolve(phone_id_2)],
\* followed by resolve(phone_id_3) exactly when phone_id_3 was supplied and
\* resolves.
C9_CompareSequence ==
    (IsCompare /\ ret.success) =>
        ret.phones =
            << Val(Resolved(call.phone_id_1)), Val(Resolved(call.phone_id_2)) >>
            \o (IF ~IsNone(call.phone_id_3) /\ ~IsNone(Resolved(Val(call.phone_id_3)))
                THEN << Val(Resolved(Val(call.phone_id_3))) >>
                ELSE << >>)

---------------------------------------------------------------------------
(* Properties of the catalog store client *)

\* C10: with an attempt budget of 3, a client whose query raises on every
\* attempt makes exactly 3 attempts and then raises a terminal failure, which
\* carries no row list and so differs from an empty result; it keeps going
\* until then; no client makes a 4th attempt; and after an attempt that
\* succeeds no further attempt or sleep is possible.
C10_RetryExhaustion ==
    /\ client.attempt <= 3
    /\ client.pc = "raised" => (client.attempt = 3 /\ IsNone(client.rows))
    /\ client.pc = "returned" => (~IsNone(client.rows) /\ ~ENABLED NextRetry)
    /\ client.pc = "raised" => ~ENABLED NextRetry
    /\ client.store = "down" =>
           /\ client.pc # "returned"
           /\ client.pc # "raised" => (client.attempt < 3 /\ ENABLED NextRetry)

\* the store was down for the whole query: three attempts, two sleeps, the
\* terminal failure
C10_Witness ==
    /\ client.store = "down"
    /\ client.pc = "raised"
    /\ client.attempt = 3
    /\ client.elapsed >= computeDelay(1) + computeDelay(2)

---------------------------------------------------------------------------
(* Catalog store queries per tool invocation *)

\* C11 as stated: every tool invocation performs at most one catalog store
\* query, for every input.
C11_AtMostOneQuery == queries <= 1

\* C11 as amended: search_phones_by_filters and list_all_phones make exactly
\* one query; get_phone_details makes one query when a row's id equals the
\* identifier and two otherwise; compare_phones makes one or two queries for
\* each identifier it looks up (phone_id_3 only when it is not empty), one
\* when a row's id equals it and two otherwise, so between two and six;
\* explain_phone_feature makes none.
C11_QueriesPerTool ==
    /\ call.tool \in {"search_phones_by_filters", "list_all_phones"} => queries = 1
    /\ call.tool = "explain_phone_feature" => queries = 0
    /\ IsDetails => queries = (IF ExactRows(call.phone_id) # {} THEN 1 ELSE 2)
    /\ IsCompare =>
           /\ queries =
                  (IF ExactRows(call.phone_id_1) # {} THEN 1 ELSE 2)
                  + (IF ExactRows(call.phone_id_2) # {} THEN 1 ELSE 2)
                  + (IF ~Truthy(call.phone_id_3) THEN 0
                     ELSE IF ExactRows(Val(call.phone_id_3)) # {} THEN 1 ELSE 2)
           /\ queries \in 2..6

\* a compare call with three identifiers none of which is an id: six queries
C11_Witness ==
    /\ IsCompare
    /\ Truthy(call.phone_id_3)
    /\ ExactRows(call.phone_id_1) = {}
    /\ ExactRows(call.phone_id_2) = {}
    /\ ExactRows(Val(call.phone_id_3)) = {}
    /\ ret.success
    /\ Len(ret.phones) = 3
    /\ queries = 6

---------------------------------------------------------------------------
\* C12 as claimed: no call of a normalizer and no call of
\* search_phones_by_filters raises, whatever the rows hold (a price, a
\* spotlight, an all_specs or an info that is missing, null or not text).
\* The code breaks it: a Display entry with a null info makes
\* _parse_refresh_rate raise, a numeric price makes _parse_lowest_price
\* raise, and the search over a store that holds such a row raises as well.
IsNormalizer ==
    call.tool \in {"_parse_lowest_price", "_parse_max_ram",
                   "_parse_battery_capacity", "_parse_refresh_rate"}

C12_NormalizersNeverRaise == (IsNormalizer \/ IsSearch) => ret # Raised

---------------------------------------------------------------------------
(* The glossary claims.  Related(key, query) is the relation of the claims: *)
(* the key is a substring of the lowercased query, or the query of the key. *)

IsExplain == call.tool = "explain_phone_feature"

Query == Lower(call.feature)

Related(key, query) == Contains(query, key) \/ Contains(key, query)

\* a key before place i of the glossary is related to the query
Earlier(i, query) == \E j \in 1..(i - 1) : Related(raw_explanations[j].key, query)

\* C13: when a glossary key equals the lowercased query, explain_phone_feature
\* returns that key's entry, even when an earlier key of the glossary is a
\* substring of the query or contains it.
C13_ExactMatchFirst ==
    IsExplain =>
        \A i \in 1..Len(raw_explanations) :
            raw_explanations[i].key = Query =>
                ret.success /\ ret.feature = raw_explanations[i].value

\* the query "PWM": the key "pwm dimming" comes first and contains it, the
\* entry returned is the one of "pwm"
C13_Witness ==
    /\ IsExplain
    /\ call.feature = <<"P", "W", "M">>
    /\ \E i \in 1..Len(raw_explanations) :
          /\ raw_explanations[i].key = Query
          /\ Earlier(i, Query)
          /\ ret.feature = raw_explanations[i].value
    /\ ret.feature.name = "PWM (Pulse-Width Modulation)"

\* C14: when no glossary key equals the lowercased query, the entry returned
\* is the one of the first key, in the glossary's insertion order, that is a
\* substring of the query or contains it; a later key is never preferred,
\* however long or specific.
C14_FirstPartialMatch ==
    (IsExplain /\ \A i \in 1..Len(raw_explanations) : raw_explanations[i].key # Query) =>
        \A i \in 1..Len(raw_explanations) :
            (Related(raw_explanations[i].key, Query) /\ ~Earlier(i, Query)) =>
                ret.success /\ ret.feature = raw_explanations[i].value

\* the query "What is OIS vs EIS": it contains "ois" and the later, longer
\* "ois vs eis"; the entry returned is the one of "ois"
C14_Witness ==
    /\ IsExplain
    /\ \A i \in 1..Len(raw_explanations) : raw_explanations[i].key # Query
    /\ \E i, j \in 1..Len(raw_explanations) :
          /\ i < j
          /\ ~Earlier(i, Query)
          /\ Related(raw_explanations[i].key, Query)
          /\ Contains(Query, raw_explanations[j].key)
          /\ Len(raw_explanations[j].key) > Len(raw_explanations[i].key)
          /\ ret.feature = raw_explanations[i].value
    /\ ret.feature.name = "Optical Image Stabilization (OIS)"

\* C15: explain_phone_feature fails, with available_features the full list
\* of glossary keys and without an entry, exactly when no glossary key
\* equals the lowercased query, is a substring of it or contains it; in
\* every other case it succeeds with one of the stored entries.
C15_NotFoundIff ==
    IsExplain =>
        LET unrelated == \A i \in 1..Len(raw_explanations) :
                             ~Related(raw_explanations[i].key, Query)
        IN  /\ ret.success <=> ~unrelated
            /\ ~ret.success =>
                  /\ ret.available_features =
                        [i \in 1..Len(raw_explanations) |-> raw_explanations[i].key]
                  /\ "feature" \notin DOMAIN ret
            /\ ret.success =>
                  \E i \in 1..Len(raw_explanations) : ret.feature = raw_explanations[i].value

\* the query "zoom" is related to no key: the failure lists every key
C15_Witness ==
    /\ IsExplain
    /\ call.feature = <<"z", "o", "o", "m">>
    /\ ~ret.success
    /\ Len(ret.available_features) = Len(raw_explanations)
    /\ ret.available_features[Len(raw_explanations)] = <<"p", "w", "m">>

---------------------------------------------------------------------------
(* The normalizer claims, on the calls of SpecNormalize that return. *)

Called(name) == call.tool = name /\ ret # Raised /\ ret # NoCall

\* the price text of the row the normalizer was called on
PriceText == IF IsNone(call.phone.price) THEN << >> ELSE Val(call.phone.price)

\* the values of the currency-annotated tokens, and of all the tokens
Annotated == {PriceText[i].val : i \in {j \in 1..Len(PriceText) : PriceText[j].cur}}

Unannotated == {PriceText[i].val : i \in {j \in 1..Len(PriceText) : ~PriceText[j].cur}}

\* C16: when the price text holds a currency-annotated token, the lowest
\* price is the minimum of the annotated tokens only; a token without
\* annotation does not change it, even when it is smaller and at least 1000.
\* The text "64GB 4GB RAM: Rs 47,600, 128GB 4GB RAM: Rs 52,600" gives 47600.
C16_AnnotatedMinimum ==
    Called("_parse_lowest_price") =>
        /\ Annotated # {} => ret.value = Some(Min(Annotated))
        /\ PriceText = PriceExample => ret.value = Some(47600)

\* an annotated 47600 next to a bare 2025: the result is 47600
C16_Witness ==
    /\ Called("_parse_lowest_price")
    /\ Annotated # {}
    /\ \E v \in Unannotated : v >= 1000 /\ v < Min(Annotated)
    /\ ret.value = Some(Min(Annotated))

\* C17: when the price text holds no currency-annotated token, the lowest
\* price is the minimum of the tokens of at least 1000, and absent when
\* there is none; a token below 1000 is never returned.  "Coming soon, check
\* back in 2025" gives 2025.
C17_FallbackMinimum ==
    (Called("_parse_lowest_price") /\ Annotated = {}) =>
        LET plausible == {v \in Unannotated : v >= 1000}
        IN  /\ ret.value = IF plausible = {} THEN None ELSE Some(Min(plausible))
            /\ ~IsNone(ret.value) => Val(ret.value) >= 1000
            /\ PriceText = << Tok(FALSE, 2025, "") >> => ret.value = Some(2025)

\* a bare 999 next to a bare 2025: the result is 2025
C17_Witness ==
    /\ Called("_parse_lowest_price")
    /\ Annotated = {}
    /\ \E v \in Unannotated : v < 1000
    /\ ret.value = Some(2025)

\* the GB-suffixed values of the row, in tenths: those of the spotlight
\* ram_size and of the info of every Memory entry
GBValues ==
    GBMatches(call.phone.spotlight.ram_size)
    \cup UNION {GBMatches(call.phone.all_specs.Memory[i].info) :
                    i \in 1..Len(call.phone.all_specs.Memory)}

\* C18 as claimed: the derived RAM is the maximum of the GB-suffixed values of
\* ram_size and of the Memory entries, and absent when there is none.  The
\* code breaks it on "1.5 GB": the value is 1.5 and the result is 1.
C18_MaximumGB ==
    Called("_parse_max_ram") =>
        IF GBValues = {} THEN IsNone(ret.value)
        ELSE ~IsNone(ret.value) /\ Val(ret.value) * 10 = Max(GBValues)

\* C18 as amended: the derived RAM is the integer part of the maximum of the
\* GB-suffixed values of ram_size and of the Memory entries taken together,
\* and absent when there is none.
C18_IntegerPartOfMaximumGB ==
    Called("_parse_max_ram") =>
        IF GBValues = {} THEN IsNone(ret.value)
        ELSE ~IsNone(ret.value) /\ Val(ret.value) = Max(GBValues) \div 10

\* ram_size and a Memory entry both hold a value, the largest one has a
\* fraction and lies in the Memory entry
C18_Witness ==
    /\ Called("_parse_max_ram")
    /\ GBMatches(call.phone.spotlight.ram_size) # {}
    /\ GBValues # GBMatches(call.phone.spotlight.ram_size)
    /\ Max(GBValues) \notin GBMatches(call.phone.spotlight.ram_size)
    /\ Max(GBValues) % 10 # 0
    /\ Val(ret.value) = Max(GBValues) \div 10

\* the texts in the order the normalizer reads them: battery_size, then the
\* info of the Battery entries as listed
RECURSIVE BatteryText(_)
BatteryText(entries) ==
    IF entries = << >> THEN << >>
    ELSE Head(entries).info \o BatteryText(Tail(entries))

\* the places, in that order, of the mAh-suffixed digit groups of three
\* digits or more; the value of one is its last five digits
BatteryHits ==
    LET text == call.phone.spotlight.battery_size \o BatteryText(call.phone.all_specs.Battery)
    IN  {i \in 1..Len(text) : text[i].unit \in {"mAh", "MAH", "mah"} /\ text[i].val >= 100}

BatteryValue(i) ==
    LET text == call.phone.spotlight.battery_size \o BatteryText(call.phone.all_specs.Battery)
    IN  text[i].val % 100000

\* C19: the battery capacity is the first mAh-suffixed value of three to five
\* digits, battery_size first and then the Battery entries as listed, and
\* absent when there is none; a later value, larger or smaller, does not
\* replace it.
C19_FirstMah ==
    Called("_parse_battery_capacity") =>
        IF BatteryHits = {} THEN IsNone(ret.value)
        ELSE ret.value = Some(BatteryValue(Min(BatteryHits)))

\* battery_size holds a value and a Battery entry holds a larger one: the
\* result is the one of battery_size
C19_Witness ==
    /\ Called("_parse_battery_capacity")
    /\ \E i, j \in BatteryHits :
          /\ i = Min(BatteryHits)
          /\ i <= Len(call.phone.spotlight.battery_size)
          /\ j > Len(call.phone.spotlight.battery_size)
          /\ BatteryValue(j) > BatteryValue(i)
          /\ ret.value = Some(BatteryValue(i))

---------------------------------------------------------------------------
\* C20: whenever search_phones_by_filters returns, its result has success
\* true, count equal to the length of phones, and in filters_applied one
\* entry, with the value passed, for each criterion that is not null and
\* none for a criterion that is null.
C20_SearchResultShape ==
    (IsSearch /\ ret # Raised) =>
        /\ ret.success
        /\ ret.count = Len(ret.phones)
        /\ DOMAIN ret.filters_applied = {k \in DOMAIN call.args : ~IsNone(call.args[k])}
        /\ \A k \in DOMAIN ret.filters_applied :
               ret.filters_applied[k] = Val(call.args[k])

\* a search with some criteria passed and others not, one of them the empty
\* brand, that finds two phones
C20_Witness ==
    /\ IsSearch
    /\ call.args.brand = Some(<< >>)
    /\ ~IsNone(call.args.min_ram)
    /\ IsNone(call.args.max_price)
    /\ DOMAIN ret.filters_applied = {"brand", "min_ram"}
    /\ ret.filters_applied.brand = << >>
    /\ ret.count = 2
    /\ Len(ret.phones) = 2

---------------------------------------------------------------------------
---------------------------------------------------------------------------
(* The phone-id reference claims *)

IsBuild == call.tool = "_build_phone_id_reference" /\ ~call.raises /\ catalog # << >>

\* the row lines of the text returned, and the ids they name
RowLines == SelectSeq(ret.text, LAMBDA line : line.kind = "row")

\* the ids of the rows with an id among the first max_entries rows, in
\* catalog order
RECURSIVE IdsOf(_)
IdsOf(rows) ==
    IF rows = << >> THEN << >>
    ELSE (IF Head(rows).id # << >> THEN << Head(rows).id >> ELSE << >>) \o IdsOf(Tail(rows))

FirstRows ==
    SubSeq(catalog, 1, IF call.max_entries < Len(catalog) THEN call.max_entries
                       ELSE Len(catalog))

\* C22: the reference has a 'name | id' line only for rows with a non-empty
\* id: the rows without id are dropped, every row with an id among the first
\* max_entries rows has exactly one line, in catalog order, and when the
\* catalog has more than max_entries rows the last line reports how many
\* rows lie beyond max_entries.
C22_ReferenceLines ==
    IsBuild =>
        /\ [i \in 1..Len(RowLines) |-> RowLines[i].phone_id] = IdsOf(FirstRows)
        /\ \A i \in 1..Len(RowLines) : RowLines[i].phone_id # << >>
        /\ Len(catalog) > call.max_entries <=>
               ret.text[Len(ret.text)].kind = "more"
        /\ Len(catalog) > call.max_entries =>
               ret.text[Len(ret.text)].remaining = Len(catalog) - call.max_entries

\* three rows, the first of the first two without id, max_entries 2: one
\* row line and a last line that reports one more row
C22_Witness ==
    /\ IsBuild
    /\ Len(catalog) = 3
    /\ call.max_entries = 2
    /\ catalog[1].id = << >>
    /\ Len(RowLines) = 1
    /\ RowLines[1].phone_id = catalog[2].id
    /\ ret.text[Len(ret.text)] = [kind |-> "more", remaining |-> 1]

IsGetter == call.tool \in Getters

\* C23: the reference builder fetches the catalog once on the first get and
\* once per refresh_phone_reference, and every getter returns the text of
\* the preceding build, the load-failure and the empty-catalog message
\* included, whatever max_entries that build was given.
C23_ReferenceCache ==
    /\ reference.fetches = reference.refreshes + (IF reference.early THEN 1 ELSE 0)
    /\ (IsGetter \/ call.tool = "refresh_phone_reference") =>
           ret.text = Val(reference.built)

\* a getter, after a first getter and the refreshes, on a catalog of three
\* rows: one build more than refreshes, and the getter returns the
\* load-failure message of the last build
C23_Witness ==
    /\ IsGetter
    /\ Len(catalog) = 3
    /\ reference.refreshes = MaxCalls
    /\ reference.early
    /\ reference.fetches = MaxCalls + 1
    /\ reference.built = Some(LoadFailure)
    /\ ret.text = LoadFailure

---------------------------------------------------------------------------
(* The session claims *)

\* the request of the sequential caller has returned
Returned1 == api.req[1].pc = "done"

\* the requested id is not blank after trimming
NonBlank(session_id) == ~IsNone(session_id) /\ strip(Val(session_id)) # << >>

\* C24: for sequential calls of _ensure_session, a session id that is not
\* blank after trimming is returned trimmed, and create_session is called
\* only if no session has that id (an existing session is reused
\* unchanged); a missing or blank id gets a new session and its generated id
\* is returned.  A session with the returned id exists on return.
C24_EnsureSession ==
    Returned1 =>
        LET r == api.req[1]
            had == {session \in r.before : Some(session.id) = r.returned}
        IN  /\ NonBlank(r.session_id) =>
                  /\ r.returned = Some(strip(Val(r.session_id)))
                  /\ r.created <=> had = {}
                  /\ ~r.created => had \subseteq api.sessions
            /\ ~NonBlank(r.session_id) =>
                  /\ r.created
                  /\ had = {}
                  /\ r.returned = Some(GeneratedId(Len(api.log)))
            /\ \E session \in api.sessions : Some(session.id) = r.returned

\* " s " requested when the session "s" exists: "s" is returned and the
\* session is the one made before
C24_Witness ==
    /\ Returned1
    /\ api.req[1].session_id = Some(<<" ", "s", " ">>)
    /\ api.req[1].returned = Some(<<"s">>)
    /\ ~api.req[1].created
    /\ \E session \in api.req[1].before : session.id = <<"s">> /\ session \in api.sessions

---------------------------------------------------------------------------
(* The reply claim *)

IsReply == call.tool = "_extract_reply_from_events"

\* the text of event i of the call, empty when it has none
TextAt(i) == _extract_text_from_event_content(call.events[i].content)

\* the places of the final-response events with text, and of the events
\* with text that the user did not author
FinalWithText ==
    {i \in 1..Len(call.events) :
        call.events[i].marker \in {"method true", "attribute true"} /\ TextAt(i) # << >>}

OthersWithText ==
    {i \in 1..Len(call.events) : call.events[i].author # Some("user") /\ TextAt(i) # << >>}

\* C26: the reply is the text of the latest final-response event with
\* non-empty text; without one, the text of the latest event with non-empty
\* text that the user did not author; without either, the empty string.  An
\* event with empty text hides no earlier event, and no non-final event is
\* chosen while a final-response event with text exists.
C26_ReplyFromEvents ==
    IsReply =>
        ret.reply = IF FinalWithText # {} THEN TextAt(Max(FinalWithText))
                    ELSE IF OthersWithText # {} THEN TextAt(Max(OthersWithText))
                    ELSE << >>

\* a final answer, then a final event with blank text, then an agent event
\* with text that is not final: the reply is the final answer
C26_Witness ==
    /\ IsReply
    /\ Len(call.events) = 3
    /\ FinalWithText = {1}
    /\ call.events[2].marker = "method true"
    /\ TextAt(2) = << >>
    /\ 3 \in OthersWithText
    /\ ret.reply = <<"h", "i">>


=========================================================================
